---- MODULE Spec2Model ----
\* A model of examples/advanced/dynamic-inventory/custom_inventory.py:
\* the fixed inventory document, the per-host query, the JSON rendering
\* of both, and the command-line dispatch of main().
EXTENDS Integers, Sequences, FiniteSets, TLC

\* ------------------------------------------------------------------
\* Python strings.  A str is the sequence of its Unicode code points:
\* '--list' is <<45, 45, 108, 105, 115, 116>>, and a character outside
\* ASCII is one element like any other.
\* ------------------------------------------------------------------
\* The ASCII characters from ' ' (32) to '_' (95) and from 'a' (97) to
\* '~' (126), in the order of their code points.
Ascii32 == " !\"#$%&'()*+,-./0123456789:;<=>?@ABCDEFGHIJKLMNOPQRSTUVWXYZ[\\]^_"
Ascii97 == "abcdefghijklmnopqrstuvwxyz{|}~"

\* ord(c) for a character of these two runs.
ord(c) ==
  IF \E n \in 1..Len(Ascii97) : SubSeq(Ascii97, n, n) = c
  THEN 96 + CHOOSE n \in 1..Len(Ascii97) : SubSeq(Ascii97, n, n) = c
  ELSE 31 + CHOOSE n \in 1..Len(Ascii32) : SubSeq(Ascii32, n, n) = c

\* The str a literal of the source denotes.
Str(lit) == [i \in 1..Len(lit) |-> ord(SubSeq(lit, i, i))]

\* ------------------------------------------------------------------
\* Python values.  Every value carries its type, so 1, "1" and True
\* stay distinct.  A dict keeps its keys in insertion order, as a
\* sequence of <<key, value>> pairs with no key twice.
\* ------------------------------------------------------------------
PyNone == [k |-> "none"]
PyStr(s) == [k |-> "str", s |-> s]
PyInt(i) == [k |-> "int", i |-> i]
PyBool(b) == [k |-> "bool", b |-> b]
PyList(xs) == [k |-> "list", xs |-> xs]
PyDict(kv) == [k |-> "dict", kv |-> kv]

\* The outcome of an operation that raised KeyError instead of returning.
KeyError(key) == [k |-> "KeyError", key |-> key]

\* bool(v): None, "", 0, False and empty containers are falsy.
Truthy(v) ==
  CASE v.k = "none" -> FALSE
    [] v.k = "str" -> v.s # Str("")
    [] v.k = "int" -> v.i # 0
    [] v.k = "bool" -> v.b
    [] v.k = "list" -> v.xs # <<>>
    [] v.k = "dict" -> v.kv # <<>>
    [] OTHER -> TRUE

\* The keys of a dict, as a set.
DictKeys(d) == {d.kv[n][1] : n \in 1..Len(d.kv)}

\* key in d
DictHas(d, key) == key \in DictKeys(d)

\* The position of key in d (key must be present).
DictPos(d, key) == CHOOSE n \in 1..Len(d.kv) : d.kv[n][1] = key

\* d[key]: the stored value, or KeyError when the key is absent.
DictGetItem(d, key) ==
  IF DictHas(d, key) THEN d.kv[DictPos(d, key)][2] ELSE KeyError(key)

\* d.get(key, default)
DictGet(d, key, default) ==
  IF DictHas(d, key) THEN d.kv[DictPos(d, key)][2] ELSE default

\* d[key] = v: replaces in place, or appends a new key at the end.
DictSet(d, key, v) ==
  IF DictHas(d, key)
  THEN PyDict([d.kv EXCEPT ![DictPos(d, key)] = <<key, v>>])
  ELSE PyDict(Append(d.kv, <<key, v>>))

\* d.pop(key, None): removes the key when present.
DictPop(d, key) ==
  PyDict(SelectSeq(d.kv, LAMBDA p : p[1] # key))

\* ------------------------------------------------------------------
\* get_inventory(): the document literal, group by group.
\* ------------------------------------------------------------------
\* all.hosts without db1.example.com.
AllGroup_without_db1 ==
  PyDict(<<
    <<Str("hosts"), PyList(<<PyStr(Str("web1.example.com")), PyStr(Str("web2.example.com"))>>)>>,
    <<Str("vars"), PyDict(<<
        <<Str("ansible_user"), PyStr(Str("ubuntu"))>>,
        <<Str("ansible_python_interpreter"), PyStr(Str("/usr/bin/python3"))>> >>)>> >>)

AllGroup ==
  PyDict(<<
    <<Str("hosts"), PyList(<<PyStr(Str("web1.example.com")),
                        PyStr(Str("web2.example.com")),
                        PyStr(Str("db1.example.com"))>>)>>,
    <<Str("vars"), PyDict(<<
        <<Str("ansible_user"), PyStr(Str("ubuntu"))>>,
        <<Str("ansible_python_interpreter"), PyStr(Str("/usr/bin/python3"))>> >>)>> >>)

WebserversGroup ==
  PyDict(<<
    <<Str("hosts"), PyList(<<PyStr(Str("web1.example.com")),
                        PyStr(Str("web2.example.com"))>>)>>,
    <<Str("vars"), PyDict(<<
        <<Str("http_port"), PyInt(80)>>,
        <<Str("https_port"), PyInt(443)>> >>)>> >>)

DatabasesGroup ==
  PyDict(<<
    <<Str("hosts"), PyList(<<PyStr(Str("db1.example.com"))>>)>>,
    <<Str("vars"), PyDict(<< <<Str("db_port"), PyInt(5432)>> >>)>> >>)

\* A child that names no group of the document.
ProductionGroup_dangling_child ==
  PyDict(<<
    <<Str("children"), PyList(<<PyStr(Str("webservers")), PyStr(Str("dbservers"))>>)>>,
    <<Str("vars"), PyDict(<< <<Str("environment"), PyStr(Str("production"))>> >>)>> >>)

ProductionGroup ==
  PyDict(<<
    <<Str("children"), PyList(<<PyStr(Str("webservers")), PyStr(Str("databases"))>>)>>,
    <<Str("vars"), PyDict(<< <<Str("environment"), PyStr(Str("production"))>> >>)>> >>)

\* hostvars without an entry for web2.example.com.
Meta_without_web2 ==
  PyDict(<<
    <<Str("hostvars"), PyDict(<<
        <<Str("web1.example.com"), PyDict(<<
            <<Str("ansible_host"), PyStr(Str("192.168.1.10"))>>,
            <<Str("server_id"), PyInt(1)>> >>)>>,
        <<Str("db1.example.com"), PyDict(<<
            <<Str("ansible_host"), PyStr(Str("192.168.1.20"))>>,
            <<Str("server_id"), PyInt(10)>>,
            <<Str("db_master"), PyBool(TRUE)>> >>)>> >>)>> >>)

Meta ==
  PyDict(<<
    <<Str("hostvars"), PyDict(<<
        <<Str("web1.example.com"), PyDict(<<
            <<Str("ansible_host"), PyStr(Str("192.168.1.10"))>>,
            <<Str("server_id"), PyInt(1)>> >>)>>,
        <<Str("web2.example.com"), PyDict(<<
            <<Str("ansible_host"), PyStr(Str("192.168.1.11"))>>,
            <<Str("server_id"), PyInt(2)>> >>)>>,
        <<Str("db1.example.com"), PyDict(<<
            <<Str("ansible_host"), PyStr(Str("192.168.1.20"))>>,
            <<Str("server_id"), PyInt(10)>>,
            <<Str("db_master"), PyBool(TRUE)>> >>)>> >>)>> >>)

get_inventory ==
  PyDict(<<
    <<Str("all"), AllGroup>>,
    <<Str("webservers"), WebserversGroup>>,
    <<Str("databases"), DatabasesGroup>>,
    <<Str("production"), ProductionGroup>>,
    <<Str("_meta"), Meta>> >>)

\* inventory['_meta']['hostvars'][hostname]: a subscript in place of .get.
HostVarsOf_subscript(inventory, hostname) ==
  LET meta == DictGetItem(inventory, Str("_meta")) IN
  IF meta.k = "KeyError" THEN meta
  ELSE LET hv == DictGetItem(meta, Str("hostvars")) IN
       IF hv.k = "KeyError" THEN hv
       ELSE DictGetItem(hv, hostname)

\* inventory['_meta']['hostvars'].get(hostname, {}) on a given document:
\* the two subscripts raise KeyError on a missing key, .get does not.
HostVarsOf(inventory, hostname) ==
  LET meta == DictGetItem(inventory, Str("_meta")) IN
  IF meta.k = "KeyError" THEN meta
  ELSE LET hv == DictGetItem(meta, Str("hostvars")) IN
       IF hv.k = "KeyError" THEN hv
       ELSE DictGet(hv, hostname, PyDict(<<>>))

\* get_host_vars(hostname)
get_host_vars(hostname) == HostVarsOf(get_inventory, hostname)

\* ------------------------------------------------------------------
\* JSON text, as the sequence of its lexemes.  Whitespace is kept: a
\* TWs(nl, sp) lexeme stands for nl newlines followed by sp spaces.
\* ------------------------------------------------------------------
TPunct(c) == [t |-> "punct", c |-> c]
TWs(nl, sp) == [t |-> "ws", nl |-> nl, sp |-> sp]
TString(s) == [t |-> "string", s |-> s]
TNumber(i) == [t |-> "number", i |-> i]
TLit(w) == [t |-> "lit", w |-> w]

\* indent=2 in json.dumps(..., indent=2)
Indent == 2

\* The '\n' + indent * level that the encoder puts before every item.
NewlineIndent(level) == TWs(1, Indent * level)

\* json.dumps(v, indent=2): the encoder's type dispatch (str, None,
\* True/False, int, list, dict in that order) and its layout: an empty
\* container is rendered closed on the spot, any other one item per line.
\* The int case tried before the bool case: True is written as 1.
EncodeScalar_int_before_bool(v) ==
  CASE v.k = "str" -> <<TString(v.s)>>
    [] v.k = "none" -> <<TLit("null")>>
    [] v.k = "int" -> <<TNumber(v.i)>>
    [] v.k = "bool" -> <<TNumber(IF v.b THEN 1 ELSE 0)>>

EncodeScalar(v) ==
  CASE v.k = "str" -> <<TString(v.s)>>
    [] v.k = "none" -> <<TLit("null")>>
    [] v.k = "bool" -> <<TLit(IF v.b THEN "true" ELSE "false")>>
    [] v.k = "int" -> <<TNumber(v.i)>>

RECURSIVE Encode(_, _), EncodeList(_, _, _), EncodeDict(_, _, _)
Encode(v, level) ==
  CASE v.k \in {"str", "none", "bool", "int"} -> EncodeScalar(v)
    [] v.k = "list" ->
         IF v.xs = <<>> THEN <<TPunct("["), TPunct("]")>>
         ELSE <<TPunct("["), NewlineIndent(level + 1)>>
              \o EncodeList(v.xs, 1, level + 1)
              \o <<NewlineIndent(level), TPunct("]")>>
    [] v.k = "dict" ->
         IF v.kv = <<>> THEN <<TPunct("{"), TPunct("}")>>
         ELSE <<TPunct("{"), NewlineIndent(level + 1)>>
              \o EncodeDict(v.kv, 1, level + 1)
              \o <<NewlineIndent(level), TPunct("}")>>

\* The items of a list from position n on, separated by ',' + newline.
EncodeList(xs, n, level) ==
  IF n > Len(xs) THEN <<>>
  ELSE (IF n > 1 THEN <<TPunct(","), NewlineIndent(level)>> ELSE <<>>)
       \o Encode(xs[n], level)
       \o EncodeList(xs, n + 1, level)

\* The members of a dict from position n on: "key": value.
EncodeDict(kv, n, level) ==
  IF n > Len(kv) THEN <<>>
  ELSE (IF n > 1 THEN <<TPunct(","), NewlineIndent(level)>> ELSE <<>>)
       \o <<TString(kv[n][1]), TPunct(":"), TWs(0, 1)>>
       \o Encode(kv[n][2], level)
       \o EncodeDict(kv, n + 1, level)

dumps(v) == Encode(v, 0)

\* print(x): the text followed by one newline.
PrintLine(text) == text \o <<TWs(1, 0)>>

\* ------------------------------------------------------------------
\* json.loads, the reader a consumer applies to the printed text.
\* ------------------------------------------------------------------
JSONDecodeError == [k |-> "JSONDecodeError"]

\* The lexeme at position i, or an end marker past the end.
Tok(toks, i) == IF i \in 1..Len(toks) THEN toks[i] ELSE [t |-> "eof"]

\* The first position from i on that does not hold whitespace.
RECURSIVE SkipWs(_, _)
SkipWs(toks, i) ==
  IF Tok(toks, i).t = "ws" THEN SkipWs(toks, i + 1) ELSE i

IsPunct(tok, c) == tok.t = "punct" /\ tok.c = c

\* Each parser returns the value read and the position after it.
RECURSIVE ParseValue(_, _), ParseArray(_, _, _), ParseObject(_, _, _)
ParseValue(toks, i0) ==
  LET i == SkipWs(toks, i0)
      tok == Tok(toks, i)
  IN CASE tok.t = "string" -> [v |-> PyStr(tok.s), i |-> i + 1]
       [] tok.t = "number" -> [v |-> PyInt(tok.i), i |-> i + 1]
       [] tok.t = "lit" ->
            IF tok.w = "true" THEN [v |-> PyBool(TRUE), i |-> i + 1]
            ELSE IF tok.w = "false" THEN [v |-> PyBool(FALSE), i |-> i + 1]
            ELSE IF tok.w = "null" THEN [v |-> PyNone, i |-> i + 1]
            ELSE [v |-> JSONDecodeError, i |-> i]
       [] IsPunct(tok, "[") ->
            IF IsPunct(Tok(toks, SkipWs(toks, i + 1)), "]")
            THEN [v |-> PyList(<<>>), i |-> SkipWs(toks, i + 1) + 1]
            ELSE ParseArray(toks, i + 1, <<>>)
       [] IsPunct(tok, "{") ->
            IF IsPunct(Tok(toks, SkipWs(toks, i + 1)), "}")
            THEN [v |-> PyDict(<<>>), i |-> SkipWs(toks, i + 1) + 1]
            ELSE ParseObject(toks, i + 1, PyDict(<<>>))
       [] OTHER -> [v |-> JSONDecodeError, i |-> i]

\* One element, then ',' and the rest, or ']'.
ParseArray(toks, i, acc) ==
  LET r == ParseValue(toks, i)
      j == SkipWs(toks, r.i)
  IN IF r.v.k = "JSONDecodeError" THEN r
     ELSE IF IsPunct(Tok(toks, j), ",")
          THEN ParseArray(toks, j + 1, Append(acc, r.v))
     ELSE IF IsPunct(Tok(toks, j), "]")
          THEN [v |-> PyList(Append(acc, r.v)), i |-> j + 1]
     ELSE [v |-> JSONDecodeError, i |-> j]

\* One "key": value member, then ',' and the rest, or '}'.  A repeated
\* key keeps the last value.
ParseObject(toks, i0, acc) ==
  LET i == SkipWs(toks, i0)
      key == Tok(toks, i)
      c == SkipWs(toks, i + 1)
  IN IF key.t # "string" \/ ~IsPunct(Tok(toks, c), ":")
     THEN [v |-> JSONDecodeError, i |-> i]
     ELSE LET r == ParseValue(toks, c + 1)
              j == SkipWs(toks, r.i)
          IN IF r.v.k = "JSONDecodeError" THEN r
             ELSE IF IsPunct(Tok(toks, j), ",")
                  THEN ParseObject(toks, j + 1, DictSet(acc, key.s, r.v))
             ELSE IF IsPunct(Tok(toks, j), "}")
                  THEN [v |-> DictSet(acc, key.s, r.v), i |-> j + 1]
             ELSE [v |-> JSONDecodeError, i |-> j]

\* json.loads(text): one value, then nothing but whitespace.
loads(toks) ==
  LET r == ParseValue(toks, 1)
  IN IF r.v.k = "JSONDecodeError" THEN JSONDecodeError
     ELSE IF SkipWs(toks, r.i) = Len(toks) + 1 THEN r.v
     ELSE JSONDecodeError

\* Deep equality of two values: same type and content; dicts compare as
\* mappings, whatever the order of their keys.
RECURSIVE DeepEqual(_, _)
DeepEqual(a, b) ==
  /\ a.k = b.k
  /\ CASE a.k = "list" ->
            /\ Len(a.xs) = Len(b.xs)
            /\ \A n \in 1..Len(a.xs) : DeepEqual(a.xs[n], b.xs[n])
       [] a.k = "dict" ->
            /\ DictKeys(a) = DictKeys(b)
            /\ \A key \in DictKeys(a) :
                 DeepEqual(DictGetItem(a, key), DictGetItem(b, key))
       [] OTHER -> a = b

\* ------------------------------------------------------------------
\* The command line.
\* ------------------------------------------------------------------
\* Longest argument vector explored.
MaxArgs == 3

\* The one-character strings the parser looks for, by code point: '-',
\* '.', '=', ' ' and the newline; the empty string; the '--' separator.
Hyphen == <<45>>
FullStop == <<46>>
EqualsSign == <<61>>
Space == <<32>>
Newline == <<10>>
Empty == <<>>
DoubleHyphen == <<45, 45>>

\* ARABIC-INDIC DIGIT THREE, a decimal digit outside ASCII.
ArabicIndicThree == 1635

\* The argument strings explored: the declared options, the help option
\* the parser adds by itself, an undeclared option, an abbreviation, an
\* ambiguous abbreviation, the --opt=value form with and without a
\* value, a help option with something attached, the '--' separator,
\* plain strings, the empty string among them, a negative number
\* written with a digit outside ASCII, and --host with '--' as its value.
ArgStrings ==
  {Str("--list"), Str("--host"), Str("-h"), Str("--bogus"), Str("--li"),
   Str("--h"), Str("--host=db1.example.com"), Str("--host="), Str("-hx"),
   Str("--"), Str("web1.example.com"), Str("unknown.example.com"), Str(""),
   Hyphen \o <<ArabicIndicThree>>, Str("--host=--")}

RECURSIVE SeqsUpTo(_, _)
SeqsUpTo(S, n) ==
  IF n = 0 THEN {<<>>}
  ELSE SeqsUpTo(S, n - 1)
       \cup {Append(q, e) : q \in {r \in SeqsUpTo(S, n - 1) : Len(r) = n - 1}, e \in S}

Argvs == SeqsUpTo(ArgStrings, MaxArgs)

\* Strings, character by character: Char(s, i) is the one-character
\* string s[i:i+1].
Char(s, i) == SubSeq(s, i, i)
From(s, i) == SubSeq(s, i, Len(s))
StartsWith(s, p) == Len(p) <= Len(s) /\ SubSeq(s, 1, Len(p)) = p
Contains(s, c) == \E i \in 1..Len(s) : Char(s, i) = c
\* The position of the first c in s, or 0.
Find(s, c) ==
  IF Contains(s, c)
  THEN CHOOSE i \in 1..Len(s) :
         Char(s, i) = c /\ \A j \in 1..(i - 1) : Char(s, j) # c
  ELSE 0

\* \d in a str pattern: every Unicode decimal digit (category Nd).  The
\* digits come in runs of ten, zero to nine; these are the zeros.
DigitZeros ==
  {48, 1632, 1776, 1984, 2406, 2534, 2662, 2790, 2918, 3046, 3174, 3302,
   3430, 3558, 3664, 3792, 3872, 4160, 4240, 6112, 6160, 6470, 6608, 6784,
   6800, 6992, 7088, 7232, 7248, 42528, 43216, 43264, 43472, 43504, 43600,
   44016, 65296, 66720, 68912, 69734, 69872, 69942, 70096, 70384, 70736,
   70864, 71248, 71360, 71472, 71904, 72016, 72784, 73040, 73120, 92768,
   92864, 93008, 120782, 120792, 120802, 120812, 120822, 123200, 123632,
   125264, 130032}
Digits == UNION {z..(z + 9) : z \in DigitZeros}
AllDigits(s) == \A i \in 1..Len(s) : s[i] \in Digits

\* The parser's negative-number pattern, '^-\d+$|^-\d*\.\d+$' ('$' also
\* matches before one final newline).
IsNegativeNumber(s) ==
  LET t == IF Len(s) > 0 /\ Char(s, Len(s)) = Newline THEN SubSeq(s, 1, Len(s) - 1) ELSE s
      body == From(t, 2)
  IN /\ StartsWith(t, Hyphen)
     /\ \/ Len(body) > 0 /\ AllDigits(body)
        \/ \E d \in 1..Len(body) :
             /\ Char(body, d) = FullStop
             /\ AllDigits(SubSeq(body, 1, d - 1))
             /\ d < Len(body) /\ AllDigits(From(body, d + 1))

\* The option strings of the parser, in the order they were added:
\* -h/--help by ArgumentParser itself, then --list and --host; each is
\* written out by code point.
OptionStrings ==
  << <<45, 104>>,                       \* '-h'
     <<45, 45, 104, 101, 108, 112>>,    \* '--help'
     <<45, 45, 108, 105, 115, 116>>,    \* '--list'
     <<45, 45, 104, 111, 115, 116>> >>  \* '--host'
OptionSet == {OptionStrings[n] : n \in 1..Len(OptionStrings)}
HelpFlags == {OptionStrings[1], OptionStrings[2]}
ActionOf(opt) ==
  IF opt \in HelpFlags THEN "help" ELSE IF opt = OptionStrings[3] THEN "list" ELSE "host"
\* --host stores the one argument it takes; help and --list take none.
TakesValue(action) == action = "host"
ActionName(action) ==
  IF action = "help" THEN "-h/--help" ELSE IF action = "list" THEN "--list" ELSE "--host"

\* The part of s before its first '=' (all of s without one) and the
\* part after it (None without one).
BeforeEq(s) ==
  IF Contains(s, EqualsSign) THEN SubSeq(s, 1, Find(s, EqualsSign) - 1) ELSE s
AfterEq(s) ==
  IF Contains(s, EqualsSign) THEN PyStr(From(s, Find(s, EqualsSign) + 1)) ELSE PyNone

\* Whether option string opt is one the abbreviation s could stand for,
\* and the argument s then carries.  A string with two dashes is cut at
\* '=' and matches every option it is a prefix of; one with a single
\* dash matches the short option that forms its first two characters,
\* the rest being that option's argument.
Matches(s, opt) ==
  IF Char(s, 2) = Hyphen THEN StartsWith(opt, BeforeEq(s))
  ELSE opt = SubSeq(s, 1, 2) \/ StartsWith(opt, s)
MatchExplicit(s, opt) ==
  IF Char(s, 2) = Hyphen THEN AfterEq(s)
  ELSE IF opt = SubSeq(s, 1, 2) THEN PyStr(From(s, 3)) ELSE PyNone

\* _get_option_tuples: the matching options, in the parser's order.
OptionTuples(s) == SelectSeq(OptionStrings, LAMBDA opt : Matches(s, opt))

\* _parse_optional: what one argument string is taken for.  pat is "A"
\* for a plain argument, "O" for an option (action "none" when the
\* parser has no such option), "E" for an ambiguous abbreviation.
Plain == [pat |-> "A", action |-> "none", opt |-> Empty, explicit |-> PyNone, matches |-> <<>>]
Option(action, opt, ex) ==
  [pat |-> "O", action |-> action, opt |-> opt, explicit |-> ex, matches |-> <<>>]
Abbreviated(s, tuples) ==
  IF Len(tuples) > 1
  THEN [pat |-> "E", action |-> "none", opt |-> s, explicit |-> PyNone, matches |-> tuples]
  ELSE IF Len(tuples) = 1
       THEN Option(ActionOf(tuples[1]), tuples[1], MatchExplicit(s, tuples[1]))
  ELSE IF IsNegativeNumber(s) THEN Plain
  ELSE IF Contains(s, Space) THEN Plain
  ELSE Option("none", s, PyNone)
Classify(s) ==
  IF s = Empty THEN Plain
  ELSE IF Char(s, 1) # Hyphen THEN Plain
  ELSE IF s \in OptionSet THEN Option(ActionOf(s), s, PyNone)
  ELSE IF Len(s) = 1 THEN Plain
  ELSE IF Contains(s, EqualsSign) /\ BeforeEq(s) \in OptionSet
       THEN Option(ActionOf(BeforeEq(s)), BeforeEq(s), AfterEq(s))
  ELSE Abbreviated(s, OptionTuples(s))

\* The position of the first '--', or 0: every string after it is a
\* plain argument and is not looked at.
DashDash(av) ==
  IF \E i \in 1..Len(av) : av[i] = DoubleHyphen
  THEN CHOOSE i \in 1..Len(av) : av[i] = DoubleHyphen /\ \A j \in 1..(i - 1) : av[j] # DoubleHyphen
  ELSE 0
Looked(av) == IF DashDash(av) = 0 THEN 1..Len(av) ELSE 1..(DashDash(av) - 1)

\* The pattern letter of position i: "O", "A", or "-" for the '--'.
Pat(av, i) ==
  IF i \in Looked(av) THEN Classify(av[i]).pat
  ELSE IF i = DashDash(av) THEN "-" ELSE "A"

\* What the parser writes: the usage line, the full help, an error line.
TUsage == [t |-> "usage"]
TDescription == [t |-> "description", s |-> "Custom Ansible Dynamic Inventory"]
TOptions == [t |-> "options", names |-> <<"-h, --help", "--list", "--host HOST">>]
TError(msg, extras) == [t |-> "error", msg |-> msg, extras |-> extras]

\* parser.format_help()
HelpText == <<TUsage, TDescription, TOptions>>

\* The namespace before parsing: list is False, host is None.
Namespace0 == [list |-> FALSE, host |-> PyNone]

ParseError(ns, msg, extras) ==
  [status |-> "error", ns |-> ns, msg |-> TError(msg, extras)]

\* consume_optional: the actions one option string stands for and the
\* position after it.  An argument attached to an option that takes
\* none is read as further single-dash options when the option has a
\* single dash, and is an error otherwise; an option that takes a value
\* uses the attached one or else the next string, which must be plain.
RECURSIVE Consume(_, _, _, _, _, _)
Consume(av, i, action, opt, ex, taken) ==
  IF ex # PyNone
  THEN IF ~TakesValue(action) /\ Char(opt, 2) # Hyphen /\ ex.s # Empty
       THEN LET o2 == Hyphen \o Char(ex.s, 1)
                rest == From(ex.s, 2)
            IN IF o2 \in OptionSet
               THEN Consume(av, i, ActionOf(o2), o2,
                            IF rest = Empty THEN PyNone ELSE PyStr(rest),
                            Append(taken, [action |-> action, args |-> <<>>]))
               ELSE [status |-> "error", actions |-> <<>>, stop |-> i,
                     msg |-> TError("argument " \o ActionName(action)
                                    \o ": ignored explicit argument", <<ex.s>>)]
       ELSE IF TakesValue(action)
            THEN [status |-> "ok", stop |-> i + 1, msg |-> TError("", <<>>),
                  actions |-> Append(taken, [action |-> action, args |-> <<ex.s>>])]
       ELSE [status |-> "error", actions |-> <<>>, stop |-> i,
             msg |-> TError("argument " \o ActionName(action)
                            \o ": ignored explicit argument", <<ex.s>>)]
  ELSE IF TakesValue(action)
       THEN IF i + 1 <= Len(av) /\ Pat(av, i + 1) = "A"
            THEN [status |-> "ok", stop |-> i + 2, msg |-> TError("", <<>>),
                  actions |-> Append(taken, [action |-> action, args |-> <<av[i + 1]>>])]
            ELSE [status |-> "error", actions |-> <<>>, stop |-> i,
                  msg |-> TError("argument " \o ActionName(action)
                                 \o ": expected one argument", <<>>)]
       ELSE [status |-> "ok", stop |-> i + 1, msg |-> TError("", <<>>),
             actions |-> Append(taken, [action |-> action, args |-> <<>>])]

\* arg_strings.remove('--'): the strings without the first '--' among
\* them.
RemoveDoubleHyphen(arg_strings) ==
  IF \E n \in 1..Len(arg_strings) : arg_strings[n] = DoubleHyphen
  THEN LET k == CHOOSE n \in 1..Len(arg_strings) :
                  /\ arg_strings[n] = DoubleHyphen
                  /\ \A q \in 1..(n - 1) : arg_strings[q] # DoubleHyphen
       IN SubSeq(arg_strings, 1, k - 1) \o SubSeq(arg_strings, k + 1, Len(arg_strings))
  ELSE arg_strings

\* _get_values, for --host: the first '--' is dropped from the argument
\* strings; one string left is the value itself, any other number of
\* them (none, here) makes a list.
GetValues(arg_strings) ==
  IF Len(RemoveDoubleHyphen(arg_strings)) = 1
  THEN PyStr(RemoveDoubleHyphen(arg_strings)[1])
  ELSE PyList([n \in 1..Len(RemoveDoubleHyphen(arg_strings)) |->
                 PyStr(RemoveDoubleHyphen(arg_strings)[n])])

\* take_action, for the actions of one option string in order: help
\* prints and exits, --list stores True, --host stores the value
\* _get_values makes of its argument strings.
RECURSIVE Take(_, _, _)
Take(actions, n, ns) ==
  IF n > Len(actions) THEN [help |-> FALSE, ns |-> ns]
  ELSE IF actions[n].action = "help" THEN [help |-> TRUE, ns |-> ns]
  ELSE IF actions[n].action = "list"
       THEN Take(actions, n + 1, [ns EXCEPT !.list = TRUE])
  ELSE Take(actions, n + 1, [ns EXCEPT !.host = GetValues(actions[n].args)])

\* _parse_known_args from position i on: the strings are consumed left
\* to right.  A string that is no option of the parser, or is not an
\* option at all, is set aside; the parser declares no positional.
RECURSIVE ParseFrom(_, _, _, _)
ParseFrom(av, i, ns, extras) ==
  IF i > Len(av)
  THEN [status |-> "ok", ns |-> ns, msg |-> TError("", extras)]
  ELSE IF Pat(av, i) # "O" \/ Classify(av[i]).action = "none"
       THEN ParseFrom(av, i + 1, ns, Append(extras, av[i]))
  ELSE LET c == Classify(av[i])
           r == Consume(av, i, c.action, c.opt, c.explicit, <<>>)
       IN IF r.status = "error"
          THEN [status |-> "error", ns |-> ns, msg |-> r.msg]
          ELSE LET t == Take(r.actions, 1, ns)
               IN IF t.help
                  THEN [status |-> "help", ns |-> t.ns, msg |-> TError("", <<>>)]
                  ELSE ParseFrom(av, r.stop, t.ns, extras)

\* parse_known_args(): an ambiguous abbreviation anywhere before '--' is
\* an error before anything is consumed; the strings set aside are
\* returned beside the namespace.
ParseKnown(av) ==
  LET amb == {i \in Looked(av) : Classify(av[i]).pat = "E"}
  IN IF amb # {}
     THEN LET i == CHOOSE m \in amb : \A q \in amb : m <= q
          IN ParseError(Namespace0, "ambiguous option",
                        <<av[i]>> \o Classify(av[i]).matches)
     ELSE ParseFrom(av, 1, Namespace0, <<>>)

\* parse_known_args()[0]: what is set aside is not reported.
parse_known_args(av) ==
  LET r == ParseKnown(av)
  IN [status |-> r.status, ns |-> r.ns,
      msg |-> IF r.status = "ok" THEN TError("", <<>>) ELSE r.msg]

\* parse_args(): strings set aside are an error.
parse_args(av) ==
  LET r == ParseKnown(av)
  IN IF r.status = "ok" /\ r.msg.extras # <<>>
     THEN ParseError(r.ns, "unrecognized arguments", r.msg.extras)
     ELSE r

\* argv: the arguments of the invocation; pc: where main() stands;
\* args: the parsed namespace; stdout, stderr: what has been written;
\* exitcode: None while running, then the process's exit status.
VARIABLES argv, pc, args, stdout, stderr, exitcode

\* heap: the documents built so far by library calls, each its own
\* object; ret: the latest call and the value it returned; first: the
\* first value each kind of call returned; ncalls, nmuts: counters.
VARIABLES heap, ret, first, ncalls, nmuts

cliVars == <<argv, pc, args, stdout, stderr, exitcode>>
libVars == <<heap, ret, first, ncalls, nmuts>>
vars == <<argv, pc, args, stdout, stderr, exitcode, heap, ret, first, ncalls, nmuts>>

\* main(), line 104: the parser accepts the arguments.
ParseArgsOk ==
  /\ pc = "start"
  /\ parse_args(argv).status = "ok"
  /\ args' = parse_args(argv).ns
  /\ pc' = "dispatch"
  /\ UNCHANGED <<argv, stdout, stderr, exitcode>>
  /\ UNCHANGED libVars

\* main(), line 104: the parser meets -h, prints the help, exits with 0.
ParseArgsHelp ==
  /\ pc = "start"
  /\ parse_args(argv).status = "help"
  /\ stdout' = stdout \o HelpText
  /\ exitcode' = PyInt(0)
  /\ pc' = "done"
  /\ UNCHANGED <<argv, args, stderr>>
  /\ UNCHANGED libVars

\* main(), line 104: the parser rejects the arguments: usage and the
\* error on stderr, exit status 2.
ParseArgsError ==
  /\ pc = "start"
  /\ parse_args(argv).status = "error"
  /\ stderr' = stderr \o <<TUsage, parse_args(argv).msg>>
  /\ exitcode' = PyInt(2)
  /\ pc' = "done"
  /\ UNCHANGED <<argv, args, stdout>>
  /\ UNCHANGED libVars

\* main(), lines 106-109: if args.list
MainList ==
  /\ pc = "dispatch"
  /\ args.list
  /\ stdout' = stdout \o PrintLine(dumps(get_inventory))
  /\ exitcode' = PyInt(0)
  /\ pc' = "done"
  /\ UNCHANGED <<argv, args, stderr>>
  /\ UNCHANGED libVars

\* main(), lines 110-113: elif args.host
MainHost ==
  /\ pc = "dispatch"
  /\ ~args.list
  /\ Truthy(args.host)
  /\ stdout' = stdout \o PrintLine(dumps(get_host_vars(args.host.s)))
  /\ exitcode' = PyInt(0)
  /\ pc' = "done"
  /\ UNCHANGED <<argv, args, stderr>>
  /\ UNCHANGED libVars

\* The else branch left empty.
MainHelp_silent ==
  /\ pc = "dispatch"
  /\ ~args.list
  /\ ~Truthy(args.host)
  /\ exitcode' = PyInt(0)
  /\ pc' = "done"
  /\ UNCHANGED <<argv, args, stdout, stderr>>
  /\ UNCHANGED libVars

\* main(), lines 114-115: else parser.print_help()
MainHelp ==
  /\ pc = "dispatch"
  /\ ~args.list
  /\ ~Truthy(args.host)
  /\ stdout' = stdout \o HelpText
  /\ exitcode' = PyInt(0)
  /\ pc' = "done"
  /\ UNCHANGED <<argv, args, stderr>>
  /\ UNCHANGED libVars

\* ------------------------------------------------------------------
\* The module used as a library: a caller imports it, calls the two
\* functions in any order and is free to change what they returned.
\* ------------------------------------------------------------------
\* Most calls, and most changes by the caller, in one run.
MaxCalls == 3
MaxMuts == 2

\* Hostnames asked for: two known hosts, an unknown one, the empty
\* string and a name that is a group, not a host.
Hostnames ==
  {Str("web1.example.com"), Str("db1.example.com"), Str("unknown.example.com"), Str(""), Str("all")}

\* The sub-value of v at a path of keys, and v with that sub-value replaced.
RECURSIVE GetAt(_, _), UpdateAt(_, _, _)
GetAt(v, path) ==
  IF path = <<>> THEN v ELSE GetAt(DictGetItem(v, Head(path)), Tail(path))
UpdateAt(v, path, new) ==
  IF path = <<>> THEN new
  ELSE DictSet(v, Head(path), UpdateAt(DictGetItem(v, Head(path)), Tail(path), new))

\* A document built once and handed out again at every call.
CachedInventory(hp) ==
  IF \E n \in 1..Len(hp) : hp[n].kind = "inventory"
  THEN hp[CHOOSE n \in 1..Len(hp) :
            /\ hp[n].kind = "inventory"
            /\ \A q \in 1..(n - 1) : hp[q].kind # "inventory"].doc
  ELSE get_inventory

\* The document a call of get_inventory() works on: the literal is
\* evaluated at every call, so it is a new object whatever the heap holds.
NewInventory(hp) == get_inventory

\* No library call has been made.
NoRet == [op |-> "none", arg |-> Str(""), val |-> PyNone, muts |-> 0]

\* The first result of every (function, argument) pair is kept.
Remember(f, r) ==
  IF \E n \in 1..Len(f) : f[n].op = r.op /\ f[n].arg = r.arg
  THEN f ELSE Append(f, r)

\* inventory = get_inventory(); the caller holds the whole document.
CallGetInventory ==
  /\ pc = "import"
  /\ ncalls < MaxCalls
  /\ LET doc == NewInventory(heap)
         r == [op |-> "get_inventory", arg |-> Str(""), val |-> doc, muts |-> nmuts]
     IN /\ heap' = Append(heap, [kind |-> "inventory", doc |-> doc, held |-> <<>>])
        /\ ret' = r
        /\ first' = Remember(first, r)
  /\ ncalls' = ncalls + 1
  /\ UNCHANGED nmuts
  /\ UNCHANGED cliVars

\* get_host_vars(h): builds a document and returns either the mapping
\* stored in it (the caller then holds a part of that document) or the
\* new empty dict given to .get as the default.
CallGetHostVars(h) ==
  /\ pc = "import"
  /\ ncalls < MaxCalls
  /\ LET doc == NewInventory(heap)
         val == HostVarsOf(doc, h)
         r == [op |-> "get_host_vars", arg |-> h, val |-> val, muts |-> nmuts]
         path == <<Str("_meta"), Str("hostvars"), h>>
     IN /\ heap' =
             IF val.k = "KeyError" THEN heap
             ELSE IF DictHas(GetAt(doc, <<Str("_meta"), Str("hostvars")>>), h)
                  THEN Append(heap, [kind |-> "inventory", doc |-> doc, held |-> path])
                  ELSE Append(heap, [kind |-> "default", doc |-> val, held |-> <<>>])
        /\ ret' = r
        /\ first' = Remember(first, r)
  /\ ncalls' = ncalls + 1
  /\ UNCHANGED nmuts
  /\ UNCHANGED cliVars

\* What a caller does to a dict it was given.
Mutations == {"set", "clear"}
Mutated(d, m) ==
  IF m = "set" THEN DictSet(d, Str("server_id"), PyInt(99)) ELSE PyDict(<<>>)

\* The caller changes, in place, the value some earlier call returned.
Mutate(n, m) ==
  /\ pc = "import"
  /\ nmuts < MaxMuts
  /\ n \in 1..Len(heap)
  /\ heap' = [heap EXCEPT ![n].doc =
                UpdateAt(@, heap[n].held, Mutated(GetAt(@, heap[n].held), m))]
  /\ nmuts' = nmuts + 1
  /\ UNCHANGED <<ret, first, ncalls>>
  /\ UNCHANGED cliVars
LibInit ==
  /\ heap = <<>>
  /\ ret = NoRet
  /\ first = <<>>
  /\ ncalls = 0
  /\ nmuts = 0

\* The script is started with some argument vector.
Init ==
  /\ argv \in Argvs
  /\ pc = "start"
  /\ args = Namespace0
  /\ stdout = <<>>
  /\ stderr = <<>>
  /\ exitcode = PyNone
  /\ LibInit

Next ==
  \/ ParseArgsOk
  \/ ParseArgsHelp
  \/ ParseArgsError
  \/ MainList
  \/ MainHost
  \/ MainHelp

Spec == Init /\ [][Next]_vars

\* The module is imported (line 118: main() is not run).
InitLib ==
  /\ argv = <<>>
  /\ pc = "import"
  /\ args = Namespace0
  /\ stdout = <<>>
  /\ stderr = <<>>
  /\ exitcode = PyNone
  /\ LibInit

NextLib ==
  \/ CallGetInventory
  \/ \E h \in Hostnames : CallGetHostVars(h)
  \/ \E n \in 1..MaxCalls, m \in Mutations : Mutate(n, m)

SpecLib == InitLib /\ [][NextLib]_vars

\* ------------------------------------------------------------------
\* Properties.
\* ------------------------------------------------------------------
\* main() got a namespace from the parser.
Parsed == pc \in {"dispatch", "done"} /\ parse_args(argv).status = "ok"

InventoryLine == PrintLine(dumps(get_inventory))
HostVarsLine(h) == PrintLine(dumps(get_host_vars(h)))

\* The hostvars of the document, read off the literal.
StoredHostVars == DictGetItem(Meta, Str("hostvars"))
ExampleHosts == {Str("web1.example.com"), Str("web2.example.com"), Str("db1.example.com")}

\* The strings of a list of strings.
Strings(l) == {l.xs[n].s : n \in 1..Len(l.xs)}
GroupNames(doc) == DictKeys(doc) \ {Str("_meta")}
HostsOf(g) == IF DictHas(g, Str("hosts")) THEN Strings(DictGetItem(g, Str("hosts"))) ELSE {}

\* C1: get_host_vars(hostname) returns the mapping stored under hostname
\* in _meta.hostvars when there is one (for web1.example.com:
\* ansible_host 192.168.1.10 and server_id 1), the empty mapping for
\* every other hostname, and never an error.
C1_HostVarsLookup ==
  ret.op = "get_host_vars" =>
    /\ ret.val.k = "dict"
    /\ IF ret.arg \in DictKeys(StoredHostVars)
       THEN ret.val = DictGetItem(StoredHostVars, ret.arg)
       ELSE ret.val = PyDict(<<>>)
    /\ ret.arg = Str("web1.example.com") =>
         ret.val = PyDict(<< <<Str("ansible_host"), PyStr(Str("192.168.1.10"))>>,
                             <<Str("server_id"), PyInt(1)>> >>)

\* Both a known and an unknown hostname have been asked for.
C1_Witness ==
  /\ \E n \in 1..Len(first) :
       /\ first[n].op = "get_host_vars"
       /\ first[n].arg = Str("web1.example.com")
       /\ first[n].val.k = "dict" /\ first[n].val.kv # <<>>
  /\ \E n \in 1..Len(first) :
       /\ first[n].op = "get_host_vars"
       /\ first[n].arg = Str("unknown.example.com")
       /\ first[n].val = PyDict(<<>>)

\* The string that was given to --host: the stored value, or '--' when
\* the parser stored the empty list in its place.
HostGiven == IF args.host.k = "str" THEN args.host.s ELSE DoubleHyphen

\* C2 (as stated): with --list absent, every string given to --host has
\* its HostVars mapping printed as JSON with exit code 0, the empty
\* object for a host that is not known.
C2_HostPrintsForEveryString ==
  (Parsed /\ pc = "done" /\ ~args.list /\ args.host # PyNone) =>
    /\ exitcode = PyInt(0)
    /\ stdout = HostVarsLine(HostGiven)
    /\ HostGiven \notin ExampleHosts =>
         stdout = <<TPunct("{"), TPunct("}"), TWs(1, 0)>>

\* C3: when the --list branch runs, the script exits with 0 and what it
\* printed parses back to a value deep-equal to get_inventory().
C3_ListRoundTrip ==
  (Parsed /\ pc = "done" /\ args.list) =>
    /\ exitcode = PyInt(0)
    /\ stderr = <<>>
    /\ DeepEqual(loads(stdout), get_inventory)

C3_Witness ==
  /\ Parsed /\ pc = "done" /\ args.list
  /\ argv = <<Str("--list")>>
  /\ Len(stdout) > 1

\* C4: with neither --list nor --host the script prints the help text,
\* no JSON, nothing on stderr, and exits with 0.
C4_NoFlagsPrintsHelp ==
  (Parsed /\ pc = "done" /\ ~args.list /\ args.host = PyNone) =>
    /\ stdout = HelpText
    /\ loads(stdout) = JSONDecodeError
    /\ stderr = <<>>
    /\ exitcode = PyInt(0)

C4_Witness ==
  /\ pc = "done" /\ argv = <<>>
  /\ ~args.list /\ args.host = PyNone
  /\ stdout = HelpText

\* C5: every host named in the hosts list of a group, or as a key of
\* _meta.hostvars, of a returned document is in the hosts of 'all'.
C5_HostsAreInAll ==
  ret.op = "get_inventory" =>
    LET doc == ret.val
        allHosts == HostsOf(DictGetItem(doc, Str("all")))
    IN /\ \A g \in GroupNames(doc) : HostsOf(DictGetItem(doc, g)) \subseteq allHosts
       /\ DictKeys(GetAt(doc, <<Str("_meta"), Str("hostvars")>>)) \subseteq allHosts

C5_Witness ==
  /\ ret.op = "get_inventory"
  /\ HostsOf(DictGetItem(ret.val, Str("databases"))) # {}
  /\ HostsOf(DictGetItem(ret.val, Str("webservers"))) # {}

\* C6: every returned document has the 'all' group with the three
\* example hosts and a _meta.hostvars entry for each of them.
C6_AllGroupAndHostVars ==
  ret.op = "get_inventory" =>
    /\ DictHas(ret.val, Str("all"))
    /\ HostsOf(DictGetItem(ret.val, Str("all"))) = ExampleHosts
    /\ \A h \in ExampleHosts : DictHas(GetAt(ret.val, <<Str("_meta"), Str("hostvars")>>), h)

C6_Witness ==
  /\ ret.op = "get_inventory"
  /\ ncalls >= 2
  /\ Len(DictGetItem(DictGetItem(ret.val, Str("all")), Str("hosts")).xs) = 3

\* C7: whatever was called before and whatever the caller did to the
\* values it got, get_inventory() returns the fixed document and
\* get_host_vars(h) returns what its first call returned.
C7_FreshEveryCall ==
  /\ ret.op = "get_inventory" => ret.val = get_inventory
  /\ \A n \in 1..Len(first) :
       (first[n].op = ret.op /\ first[n].arg = ret.arg) => ret.val = first[n].val

\* A call made after the caller changed a document it held, which
\* repeats an earlier call.
C7_Witness ==
  /\ ret.op # "none"
  /\ ret.muts > 0
  /\ \E n \in 1..Len(first) :
       first[n].op = ret.op /\ first[n].arg = ret.arg /\ first[n].muts = 0
  /\ \E n \in 1..Len(heap) :
       heap[n].kind = "inventory" /\ heap[n].doc # get_inventory

\* C8: the returned document has the dynamic-inventory format.
IsScalar(v) == v.k \in {"str", "int", "bool"}
IsStringList(v) == v.k = "list" /\ \A n \in 1..Len(v.xs) : v.xs[n].k = "str"
IsVars(v) == v.k = "dict" /\ \A key \in DictKeys(v) : IsScalar(DictGetItem(v, key))
C8_InventoryFormat ==
  ret.op = "get_inventory" =>
    LET doc == ret.val IN
    /\ doc.k = "dict"
    /\ \A name \in GroupNames(doc) :
         LET g == DictGetItem(doc, name) IN
         /\ g.k = "dict"
         /\ DictKeys(g) \subseteq {Str("hosts"), Str("children"), Str("vars")}
         /\ DictHas(g, Str("hosts")) => IsStringList(DictGetItem(g, Str("hosts")))
         /\ DictHas(g, Str("children")) =>
              /\ IsStringList(DictGetItem(g, Str("children")))
              /\ Strings(DictGetItem(g, Str("children"))) \subseteq GroupNames(doc)
         /\ DictHas(g, Str("vars")) => IsVars(DictGetItem(g, Str("vars")))
    /\ DictHas(doc, Str("_meta"))
    /\ DictKeys(DictGetItem(doc, Str("_meta"))) = {Str("hostvars")}
    /\ LET hv == GetAt(doc, <<Str("_meta"), Str("hostvars")>>) IN
       hv.k = "dict" /\ \A h \in DictKeys(hv) : IsVars(DictGetItem(hv, h))

C8_Witness ==
  /\ ret.op = "get_inventory"
  /\ \E name \in GroupNames(ret.val) : DictHas(DictGetItem(ret.val, name), Str("children"))
  /\ \E name \in GroupNames(ret.val) : DictHas(DictGetItem(ret.val, name), Str("hosts"))

\* An option the parser does not have among the arguments; --host with
\* no value attached and no plain string after it; a help option that
\* no such --host precedes.
UnrecognizedFlag(av) ==
  \E i \in Looked(av) : Classify(av[i]).pat = "O" /\ Classify(av[i]).action = "none"
HostWithoutValueAt(av, i) ==
  /\ Classify(av[i]).pat = "O" /\ Classify(av[i]).action = "host"
  /\ Classify(av[i]).explicit = PyNone
  /\ (i = Len(av) \/ Pat(av, i + 1) # "A")
HostWithoutValue(av) == \E i \in Looked(av) : HostWithoutValueAt(av, i)
InvalidArgs(av) == UnrecognizedFlag(av) \/ HostWithoutValue(av)
HelpAt(av, i) == Classify(av[i]).pat = "O" /\ Classify(av[i]).action = "help"
HelpRequested(av) ==
  \E i \in Looked(av) :
    HelpAt(av, i) /\ \A j \in Looked(av) : j < i => ~HostWithoutValueAt(av, j)

\* The script failed outright: non-zero exit, usage and an error on
\* stderr, nothing on stdout.
Rejected ==
  /\ exitcode.k = "int" /\ exitcode.i # 0
  /\ Len(stderr) = 2 /\ stderr[1] = TUsage /\ stderr[2].t = "error"
  /\ stdout = <<>>

\* Nothing partial on stdout: nothing at all, the help text, or one
\* complete JSON object followed by a newline.
NothingPartial ==
  \/ stdout = <<>>
  \/ stdout = HelpText
  \/ loads(stdout).k = "dict" /\ stdout[Len(stdout)] = TWs(1, 0)

\* C9 (as stated): an invocation with an unrecognized flag, or with
\* --host without a value, is rejected: usage, non-zero exit, no
\* document printed.
C9_InvalidArgsRejected ==
  (pc = "done" /\ InvalidArgs(argv)) => Rejected

\* C9 (amended): the same for every invocation but those with a help
\* option that no value-less --host precedes; and no invocation leaves a
\* partial document on stdout: it exits with 0 and complete output, or
\* fails with none.
C9_InvalidArgsRejectedUnlessHelp ==
  /\ (pc = "done" /\ InvalidArgs(argv) /\ ~HelpRequested(argv)) => Rejected
  /\ NothingPartial
  /\ pc = "done" => (exitcode = PyInt(0) /\ stdout # <<>>) \/ Rejected

\* An unrecognized flag, then --host without a value, then a help
\* option: rejected.
C9_Witness ==
  /\ pc = "done"
  /\ UnrecognizedFlag(argv) /\ HostWithoutValue(argv) /\ ~HelpRequested(argv)
  /\ \E i \in Looked(argv) : HelpAt(argv, i)
  /\ exitcode = PyInt(2)

\* C10 (as stated): a parsed invocation prints exactly one output: the
\* inventory if --list is set, else the host variables if a --host
\* value is present, else the help text.
C10_OneOutputByPriority ==
  (Parsed /\ pc = "done") =>
    stdout = IF args.list THEN InventoryLine
             ELSE IF args.host # PyNone THEN HostVarsLine(HostGiven)
             ELSE HelpText

====
